---- MODULE Spec2Model ----
(***************************************************************************)
(* Model of util/resample.py: resample_with_wcs and _lanczos_interpolate.  *)
(*                                                                         *)
(* Floating-point pixel and sky coordinates are fixed-point integers in    *)
(* units of half a pixel (the value v stands for v/2), so that np.round's  *)
(* round-half-to-even and the FITS +1 / -1 index shifts are computed, not  *)
(* assumed.  Integer pixel indices are plain integers.                     *)
(*                                                                         *)
(* A WCS is the record [imagew, imageh, crx, cry, mul]: pixel (1,1) sits   *)
(* at sky position (crx, cry) and there are mul pixels per sky unit.       *)
(***************************************************************************)
EXTENDS Integers, Sequences, FiniteSets

\* ---------------------------------------------------------------- bounds
MaxW == 4
MaxH == 3
MaxSrc == 2
MaxShift == 3
MaxStep == 2
MaxMargin == 4
MaxImages == 2
MaxL == 1

\* ------------------------------------------------------- numeric helpers
Max2(a, b) == IF a >= b THEN a ELSE b
Min2(a, b) == IF a <= b THEN a ELSE b

SetMin(S) == CHOOSE m \in S : \A e \in S : m <= e
SetMax(S) == CHOOSE m \in S : \A e \in S : m >= e

\* float(i) for an integer pixel index i
ToFloat(i) == 2 * i

\* np.round(v).astype(int): nearest integer, ties to the even integer
NpRound(v) ==
    LET n == v \div 2
    IN  IF v % 2 = 0 THEN n
        ELSE IF n % 2 = 0 THEN n ELSE n + 1

\* np.ceil(float(a) / b) for integer a and positive integer b
NpCeilDiv(a, b) == -((-a) \div b)

\* np.clip(v, lo, hi)
NpClip(v, lo, hi) == IF v < lo THEN lo ELSE IF v > hi THEN hi ELSE v

\* np.arange(lo, hi, dtype=int)
NpArange(lo, hi) == [k \in 1..Max2(0, hi - lo) |-> lo + k - 1]

\* ------------------------------------------------------------- the WCSes
\* r = wcs.pixelxy2radec(x, ...) along one axis (x is a FITS pixel coordinate)
Pixelxy2radec(cr, mul, x) == cr + ((x - 2) \div mul)

\* ok,x = wcs.radec2pixelxy(r, ...) along one axis
Radec2pixelxy(cr, mul, r) == (mul * (r - cr)) + 2

\* target pixel coordinate (0-indexed) -> source pixel coordinate (0-indexed)
TargetToSourceX(twcs, swcs, fx) ==
    Radec2pixelxy(swcs.crx, swcs.mul, Pixelxy2radec(twcs.crx, twcs.mul, fx + 2)) - 2
TargetToSourceY(twcs, swcs, fy) ==
    Radec2pixelxy(swcs.cry, swcs.mul, Pixelxy2radec(twcs.cry, twcs.mul, fy + 2)) - 2

\* source pixel index (0-indexed) -> target pixel coordinate (0-indexed)
SourceToTargetX(twcs, swcs, x) ==
    Radec2pixelxy(twcs.crx, twcs.mul, Pixelxy2radec(swcs.crx, swcs.mul, ToFloat(x + 1))) - 2
SourceToTargetY(twcs, swcs, y) ==
    Radec2pixelxy(twcs.cry, twcs.mul, Pixelxy2radec(swcs.cry, swcs.mul, ToFloat(y + 1))) - 2

\* ----------------------------------------------------------- bounding box
\* XY: the four corners of the input image in target pixel coordinates
CornersX(twcs, swcs) == {SourceToTargetX(twcs, swcs, x) : x \in {0, swcs.imagew - 1}}
CornersY(twcs, swcs) == {SourceToTargetY(twcs, swcs, y) : y \in {0, swcs.imageh - 1}}

BBoxOf(twcs, swcs) ==
    [x0 |-> NpRound(SetMin(CornersX(twcs, swcs))),
     y0 |-> NpRound(SetMin(CornersY(twcs, swcs))),
     x1 |-> NpRound(SetMax(CornersX(twcs, swcs))),
     y1 |-> NpRound(SetMax(CornersY(twcs, swcs)))]

\* ----------------------------------------------------------- spline nodes
\* np.linspace(lo, hi, n) is determined by its ends and its length; a length
\* n <= 0 gives the empty array, n = 1 gives [lo].
Linspace(lo, hi, n) == [lo |-> lo, hi |-> hi, n |-> Max2(0, n)]

\* faulty variant: the margin is left out at the low end of the node vector
SplineNodesNoLowMargin(b0, b1, S, margin, step) ==
    LET lo == Max2(0, b0)
        hi == Min2(S, b1 + margin)
    IN  Linspace(lo, hi, NpCeilDiv(hi - lo, step) + 1)

\* xx (or yy) for a box side [b0, b1] of a target axis of size S
SplineNodes(b0, b1, S, margin, step) ==
    LET lo == Max2(0, b0 - margin)
        hi == Min2(S, b1 + margin)
    IN  Linspace(lo, hi, NpCeilDiv(hi - lo, step) + 1)

NodeLen(v) == v.n

EmptyNodes == [lo |-> 0, hi |-> 0, n |-> 0]

\* faulty variant: the empty check is missing, so empty vectors count as small
OverlapCheckNoEmpty(nx, ny, fallback) ==
    IF (nx <= 3) \/ (ny <= 3)
    THEN (IF fallback THEN "fallback" ELSE "SmallOverlapError")
    ELSE "ok"

\* lines 121-130: the two overlap checks on the node vectors
OverlapCheck(nx, ny, fallback) ==
    IF (nx = 0) \/ (ny = 0) THEN "NoOverlapError"
    ELSE IF (nx <= 3) \/ (ny <= 3)
         THEN (IF fallback THEN "fallback" ELSE "SmallOverlapError")
         ELSE "ok"

\* faulty variant: the fallback keeps the spline margin
GridMarginKept(spl, m) == m

\* line 92 / lines 128, 161-162: the margin left by the spline branch, kept
\* when the spline is used and reset to 0 when the fallback cleared "spline"
GridMargin(spl, m) == IF spl THEN m ELSE 0

\* faulty variant: a dense grid of a single row or column counts as empty
GridEmptyOffByOne(gx, gy) == (Len(gx) <= 1) \/ (Len(gy) <= 1)

\* line 168: the empty check on the dense grid
GridEmpty(gx, gy) == (Len(gx) = 0) \/ (Len(gy) = 0)

\* --------------------------------------------------------------- mapping
\* interp.RectBivariateSpline(xx, yy, V): an interpolating spline reproduces
\* data sampled from an affine map, so the fitted surface is the bilinear
\* interpolant through the values at the four corner nodes; evaluation
\* clamps its arguments to the node domain.
SplineFit(nxx, nyy, c00, c10, c01, c11) ==
    [xlo |-> nxx.lo, xhi |-> nxx.hi, ylo |-> nyy.lo, yhi |-> nyy.hi,
     c00 |-> c00, c10 |-> c10, c01 |-> c01, c11 |-> c11]

NoSpline == SplineFit(EmptyNodes, EmptyNodes, 0, 0, 0, 0)

SplineCall(s, x, y) ==
    LET cx == NpClip(x, s.xlo, s.xhi)
        cy == NpClip(y, s.ylo, s.yhi)
    IN  (  s.c00 * (s.xhi - cx) * (s.yhi - cy)
         + s.c10 * (cx - s.xlo) * (s.yhi - cy)
         + s.c01 * (s.xhi - cx) * (cy - s.ylo)
         + s.c11 * (cx - s.xlo) * (cy - s.ylo))
        \div ((s.xhi - s.xlo) * (s.yhi - s.ylo))

\* lines 140-157: source coordinates at the nodes, and the two fitted surfaces
FitX(twcs, swcs, nxx, nyy) ==
    SplineFit(nxx, nyy,
              TargetToSourceX(twcs, swcs, ToFloat(nxx.lo)),
              TargetToSourceX(twcs, swcs, ToFloat(nxx.hi)),
              TargetToSourceX(twcs, swcs, ToFloat(nxx.lo)),
              TargetToSourceX(twcs, swcs, ToFloat(nxx.hi)))
FitY(twcs, swcs, nxx, nyy) ==
    SplineFit(nxx, nyy,
              TargetToSourceY(twcs, swcs, ToFloat(nyy.lo)),
              TargetToSourceY(twcs, swcs, ToFloat(nyy.lo)),
              TargetToSourceY(twcs, swcs, ToFloat(nyy.hi)),
              TargetToSourceY(twcs, swcs, ToFloat(nyy.hi)))

\* faulty variant: the low end of the dense grid is not clipped to the target image
DenseAxisUnclipped(b0, b1, S, m) == NpArange(b0 - m, Min2(S, b1 + m + 1))

\* faulty variant: the margin is subtracted at the high end of the dense grid
DenseAxisMarginSign(b0, b1, S, m) == NpArange(Max2(0, b0 - m), Min2(S, (b1 - m) + 1))

\* lines 165-166: the dense target pixel grid along one axis of size S
DenseAxis(b0, b1, S, m) == NpArange(Max2(0, b0 - m), Min2(S, b1 + m + 1))

\* a 2-d array of shape (len(gy), len(gx)) is kept in row-major (flat) order:
\* the flat positions, and the grid column and row of the flat position k
FlatShape(gx, gy) == 1..(Len(gx) * Len(gy))
GridX(gx, k) == gx[((k - 1) % Len(gx)) + 1]
GridY(gx, gy, k) == gy[((k - 1) \div Len(gx)) + 1]

\* lines 175-176
SplineMapX(s, gx, gy) ==
    [k \in FlatShape(gx, gy) |-> SplineCall(s, GridX(gx, k), GridY(gx, gy, k))]
SplineMapY(s, gx, gy) ==
    [k \in FlatShape(gx, gy) |-> SplineCall(s, GridX(gx, k), GridY(gx, gy, k))]

\* faulty variant: the FITS shift is not taken back (fxi -= 1 is missing)
DirectMapXNoShift(twcs, swcs, gx, gy) ==
    [k \in FlatShape(gx, gy) |->
        Radec2pixelxy(swcs.crx, swcs.mul,
                      Pixelxy2radec(twcs.crx, twcs.mul, ToFloat(GridX(gx, k)) + 2))]

\* lines 209-213
DirectMapX(twcs, swcs, gx, gy) ==
    [k \in FlatShape(gx, gy) |-> TargetToSourceX(twcs, swcs, ToFloat(GridX(gx, k)))]
DirectMapY(twcs, swcs, gx, gy) ==
    [k \in FlatShape(gx, gy) |-> TargetToSourceY(twcs, swcs, ToFloat(GridY(gx, gy, k)))]

\* ---------------------------------------------------------------- filter
\* lines 221-222
RoundAll(f) == [k \in 1..Len(f) |-> NpRound(f[k])]

\* line 225: the in-bounds mask
InBounds(x, y, w, h) == (x >= 0) /\ (y >= 0) /\ (x < w) /\ (y < h)

\* np.flatnonzero: the 0-based flat indices where the mask holds, ascending
FlatNonzero(px, py, w, h) ==
    SelectSeq([k \in 1..Len(px) |-> k - 1],
              LAMBDA i : InBounds(px[i + 1], py[i + 1], w, h))

\* a.flat[I]
TakeFlat(a, I) == [k \in 1..Len(I) |-> a[I[k] + 1]]

\* iy,ix = np.unravel_index(I, (nrows, ncols))
UnravelRow(I, ncols) == [k \in 1..Len(I) |-> I[k] \div ncols]
UnravelCol(I, ncols) == [k \in 1..Len(I) |-> I[k] % ncols]

\* faulty variant: the first grid value is not added back
RebaseNoOrigin(g, off) == [k \in 1..Len(off) |-> off[k]]

\* lines 233-234: first grid value plus unravelled offset
Rebase(g, off) == [k \in 1..Len(off) |-> g[1] + off[k]]

\* lines 221-237: round, keep the in-bounds entries, rebuild the target list
KeepIndices(gx, gy, fx, fy, rx, ry, I) ==
    [fxi |-> TakeFlat(fx, I),
     fyi |-> TakeFlat(fy, I),
     ixi |-> TakeFlat(rx, I),
     iyi |-> TakeFlat(ry, I),
     ixo |-> Rebase(gx, UnravelCol(I, Len(gx))),
     iyo |-> Rebase(gy, UnravelRow(I, Len(gx)))]
KeepInBounds(gx, gy, fx, fy, rx, ry, sw, sh) ==
    KeepIndices(gx, gy, fx, fy, rx, ry, FlatNonzero(rx, ry, sw, sh))
FilterResult(gx, gy, fx, fy, sw, sh) ==
    KeepInBounds(gx, gy, fx, fy, RoundAll(fx), RoundAll(fy), sw, sh)

\* lines 254-262: the eight assertions
AssertionsHold(tx, ty, sx, sy, W, H, w, h) ==
    /\ \A k \in 1..Len(tx) : tx[k] >= 0 /\ tx[k] < W
    /\ \A k \in 1..Len(ty) : ty[k] >= 0 /\ ty[k] < H
    /\ \A k \in 1..Len(sx) : sx[k] >= 0 /\ sx[k] < w
    /\ \A k \in 1..Len(sy) : sy[k] >= 0 /\ sy[k] < h

\* --------------------------------------------------------------- Lanczos
\* miscutils.lanczos_filter(L, x, out): the kernel sinc(x) sinc(x/L) on
\* |x| < L and 0 elsewhere, in thousandths, at x = xh/2.  It is 1 at 0 and 0
\* at the other integers; the half-integer values are tabulated for L <= 3.
LanczosHalf(order, a) ==
    IF order = 1 THEN 405
    ELSE IF order = 2 THEN (IF a = 1 THEN 573 ELSE -64)
    ELSE (IF a = 1 THEN 608 ELSE IF a = 3 THEN -135 ELSE 24)

LanczosFilter(order, xh) ==
    LET a == IF xh < 0 THEN -xh ELSE xh
    IN  IF a = 0 THEN 1000
        ELSE IF a >= 2 * order THEN 0
        ELSE IF a % 2 = 0 THEN 0
        ELSE LanczosHalf(order, a)

\* the sum of the terms of a sequence, accumulated in order
RECURSIVE SumTo(_, _)
SumTo(q, n) == IF n = 0 THEN 0 ELSE SumTo(q, n - 1) + q[n]
SumSeq(q) == SumTo(q, Len(q))

\* line 314: off = np.arange(-L, L+1); the loops of lines 317 and 319 visit
\* the offset pairs (ox, oy) with oy outermost
Off(order) == NpArange(-order, order + 1)
PairsOf(off) ==
    [i \in 1..(Len(off) * Len(off)) |->
        [ox |-> off[((i - 1) % Len(off)) + 1],
         oy |-> off[((i - 1) \div Len(off)) + 1]]]
OffsetPairs(order) == PairsOf(Off(order))

\* lines 318-320: the window weight fx*fy of pixel k at the offset (ox, oy)
Weight(order, dxk, dyk, ox, oy) ==
    LanczosFilter(order, ToFloat(-ox) + dxk) * LanczosFilter(order, ToFloat(-oy) + dyk)

\* lines 322-323: the clamped sample of one image
Sample(im, h, w, y, x) == im[NpClip(y, 0, h - 1)][NpClip(x, 0, w - 1)]

\* line 322: lacc of image m at pixel k, summed over the window
LaccOver(pairs, order, im, h, w, sx, sy, dxk, dyk) ==
    SumSeq([i \in 1..Len(pairs) |->
              Weight(order, dxk, dyk, pairs[i].ox, pairs[i].oy)
                * Sample(im, h, w, sy + pairs[i].oy, sx + pairs[i].ox)])
Lacc(order, im, h, w, sx, sy, dxk, dyk) ==
    LaccOver(OffsetPairs(order), order, im, h, w, sx, sy, dxk, dyk)

\* line 324: fsum at pixel k; the statement sits inside the loop over the
\* images, so it runs once per offset pair and per image
FsumOver(pairs, order, nimages, dxk, dyk) ==
    SumSeq([i \in 1..(Len(pairs) * nimages) |->
              Weight(order, dxk, dyk, pairs[((i - 1) \div nimages) + 1].ox,
                                      pairs[((i - 1) \div nimages) + 1].oy)])
Fsum(order, nimages, dxk, dyk) ==
    FsumOver(OffsetPairs(order), order, nimages, dxk, dyk)

\* lines 325-326: lacc /= fsum, kept as the fraction num/den
Divide(num, den) == [num |-> num, den |-> den]

\* _lanczos_interpolate: one array of n values per image
LanczosInterpolate(order, sx, sy, dx, dy, limages, h, w) ==
    [m \in 1..Len(limages) |->
        [k \in 1..Len(sx) |->
            Divide(Lacc(order, limages[m], h, w, sx[k], sy[k], dx[k], dy[k]),
                   Fsum(order, Len(limages), dx[k], dy[k]))]]

\* lines 265-266: fxi -= ixi
Fractional(f, i) == [k \in 1..Len(f) |-> f[k] - ToFloat(i[k])]

\* images of shape (h, w), indexed im[y][x] from 0
ConstImage(h, w, c) == [y \in 0..(h - 1) |-> [x \in 0..(w - 1) |-> c]]
RampImage(h, w) == [y \in 0..(h - 1) |-> [x \in 0..(w - 1) |-> 1 + (y * w) + x]]

\* the image lists a call is given: none, one image, or MaxImages images
ImageLists(h, w) ==
    {<<>>,
     <<RampImage(h, w)>>,
     <<ConstImage(h, w, 7)>>,
     [m \in 1..MaxImages |-> ConstImage(h, w, 7)],
     [m \in 1..MaxImages |-> IF m = 1 THEN RampImage(h, w) ELSE ConstImage(h, w, 7)]}

\* ------------------------------------------------------------------ state
VARIABLES
    targetwcs, wcs,          \* the two WCS arguments
    splineArg,               \* the spline argument as passed
    splineFallback, splineStep, splineMargin,
    Limages, L,              \* the images and the Lanczos order
    pc,                      \* position in resample_with_wcs
    spline,                  \* the local "spline" (cleared by the fallback)
    bbox,                    \* x0, y0, x1, y1
    margin,
    xx, yy,                  \* spline node vectors
    xspline, yspline,        \* the fitted surfaces
    ixo, iyo,                \* target pixels: the dense axes, then the kept list
    fxi, fyi,                \* source coordinates (flat, row-major)
    ixi, iyi,                \* rounded source pixels of the kept list
    rims                     \* resampled values, one array per image

inputs == <<targetwcs, wcs, splineArg, splineFallback, splineStep, splineMargin>>
vars == <<targetwcs, wcs, splineArg, splineFallback, splineStep, splineMargin,
          Limages, L, pc, spline, bbox, margin, xx, yy, xspline, yspline,
          ixo, iyo, fxi, fyi, ixi, iyi, rims>>

W == targetwcs.imagew
H == targetwcs.imageh
w == wcs.imagew
h == wcs.imageh

\* the target WCS: sizes up to MaxW x MaxH, pixel (1,1) at the sky origin
TargetWCSs == {[imagew |-> tw, imageh |-> th, crx |-> 0, cry |-> 0, mul |-> 1] :
                  tw \in {1, MaxSrc, MaxW}, th \in {1, MaxSrc, MaxH}}

\* the input WCS: shifted by up to MaxShift half pixels, at the target's
\* pixel scale or at twice its resolution
ShiftsX == {-MaxShift, -2, -1, 0, 1, 2, MaxShift}
ShiftsY == {-MaxShift, -1, 0, 2}
SourceWCSs == {[imagew |-> sw, imageh |-> sh, crx |-> cx, cry |-> cy, mul |-> m] :
                  sw \in {1, MaxSrc}, sh \in {1, MaxSrc},
                  cx \in ShiftsX, cy \in ShiftsY,
                  m \in {1, 2}}

Init ==
    /\ targetwcs \in TargetWCSs
    /\ wcs \in SourceWCSs
    /\ splineArg \in BOOLEAN
    /\ splineFallback \in (IF splineArg THEN BOOLEAN ELSE {TRUE})
    /\ splineStep \in {1, MaxStep}
    /\ splineMargin \in {0, MaxMargin}
    /\ Limages = <<>>
    /\ L = 1
    /\ pc = "START"
    /\ spline = splineArg
    /\ bbox = [x0 |-> 0, y0 |-> 0, x1 |-> 0, y1 |-> 0]
    /\ margin = 0
    /\ xx = EmptyNodes
    /\ yy = EmptyNodes
    /\ xspline = NoSpline
    /\ yspline = NoSpline
    /\ ixo = <<>>
    /\ iyo = <<>>
    /\ fxi = <<>>
    /\ fyi = <<>>
    /\ ixi = <<>>
    /\ iyi = <<>>
    /\ rims = <<>>

\* lines 80-88: project the corners of the input image, round the box
BoundingBox ==
    /\ pc = "START"
    /\ bbox' = BBoxOf(targetwcs, wcs)
    /\ pc' = "BBOX"
    /\ UNCHANGED <<inputs, Limages, L, spline, margin, xx, yy, xspline, yspline,
                   ixo, iyo, fxi, fyi, ixi, iyi, rims>>

\* lines 89-162 with spline set: node vectors, overlap checks, fit or fallback
SelectSpline ==
    /\ pc = "BBOX"
    /\ spline
    /\ LET nxx == SplineNodes(bbox.x0, bbox.x1, W, splineMargin, splineStep)
           nyy == SplineNodes(bbox.y0, bbox.y1, H, splineMargin, splineStep)
           chk == OverlapCheck(NodeLen(nxx), NodeLen(nyy), splineFallback)
       IN  /\ xx' = nxx
           /\ yy' = nyy
           /\ spline' = IF chk = "fallback" THEN FALSE ELSE spline
           /\ pc' = CASE chk = "ok" -> "SPLINE"
                      [] chk = "fallback" -> "DIRECT"
                      [] OTHER -> chk
           /\ margin' = IF chk \in {"ok", "fallback"}
                        THEN GridMargin(chk = "ok", splineMargin)
                        ELSE splineMargin
           /\ xspline' = IF chk = "ok" THEN FitX(targetwcs, wcs, nxx, nyy) ELSE xspline
           /\ yspline' = IF chk = "ok" THEN FitY(targetwcs, wcs, nxx, nyy) ELSE yspline
    /\ UNCHANGED <<inputs, Limages, L, bbox, ixo, iyo, fxi, fyi, ixi, iyi, rims>>

\* lines 89, 132, 161-162 with spline not set
SelectDirect ==
    /\ pc = "BBOX"
    /\ ~spline
    /\ margin' = 0
    /\ pc' = "DIRECT"
    /\ UNCHANGED <<inputs, Limages, L, spline, bbox, xx, yy, xspline, yspline,
                   ixo, iyo, fxi, fyi, ixi, iyi, rims>>

\* lines 165-213: the dense grid, the empty check, the source coordinates
MapGrid ==
    /\ pc \in {"SPLINE", "DIRECT"}
    /\ LET gx == DenseAxis(bbox.x0, bbox.x1, W, margin)
           gy == DenseAxis(bbox.y0, bbox.y1, H, margin)
       IN  /\ ixo' = gx
           /\ iyo' = gy
           /\ IF GridEmpty(gx, gy)
              THEN /\ pc' = "NoOverlapError"
                   /\ UNCHANGED <<fxi, fyi>>
              ELSE /\ pc' = "FILTER"
                   /\ fxi' = IF spline THEN SplineMapX(xspline, gx, gy)
                             ELSE DirectMapX(targetwcs, wcs, gx, gy)
                   /\ fyi' = IF spline THEN SplineMapY(yspline, gx, gy)
                             ELSE DirectMapY(targetwcs, wcs, gx, gy)
    /\ UNCHANGED <<inputs, Limages, L, spline, bbox, margin, xx, yy,
                   xspline, yspline, ixi, iyi, rims>>

\* lines 221-262: round, keep the in-bounds pixels, rebuild the target list
Filter ==
    /\ pc = "FILTER"
    /\ LET r == FilterResult(ixo, iyo, fxi, fyi, w, h)
       IN  /\ fxi' = r.fxi
           /\ fyi' = r.fyi
           /\ ixi' = r.ixi
           /\ iyi' = r.iyi
           /\ ixo' = r.ixo
           /\ iyo' = r.iyo
           /\ pc' = IF AssertionsHold(r.ixo, r.iyo, r.ixi, r.iyi, W, H, w, h)
                    THEN "RESAMPLE" ELSE "AssertionError"
    /\ UNCHANGED <<inputs, Limages, L, spline, bbox, margin, xx, yy,
                   xspline, yspline, rims>>

\* lines 264-287: Lanczos-interpolate every image at the kept pixels, return.
\* Limages and L are read by this step only and are drawn here.
Resample ==
    /\ pc = "RESAMPLE"
    /\ \E imgs \in ImageLists(h, w), order \in 1..MaxL :
          /\ Limages' = imgs
          /\ L' = order
          /\ IF Len(imgs) > 0
             THEN LET dx == Fractional(fxi, ixi)
                      dy == Fractional(fyi, iyi)
                  IN  /\ fxi' = dx
                      /\ fyi' = dy
                      /\ rims' = LanczosInterpolate(order, ixi, iyi, dx, dy, imgs, h, w)
             ELSE /\ rims' = <<>>
                  /\ UNCHANGED <<fxi, fyi>>
    /\ pc' = "DONE"
    /\ UNCHANGED <<inputs, spline, bbox, margin, xx, yy, xspline, yspline,
                   ixo, iyo, ixi, iyi>>

Next ==
    \/ BoundingBox
    \/ SelectSpline
    \/ SelectDirect
    \/ MapGrid
    \/ Filter
    \/ Resample

Spec == Init /\ [][Next]_vars

\* ---------------------------------------------------------------- claims
Terminal == {"DONE", "NoOverlapError", "SmallOverlapError", "AssertionError"}

\* the call is past the node checks of lines 121-130
Decided == pc \notin {"START", "BBOX"}

\* the target pixels of one axis that the dense grid covers
DenseSet(b0, b1, S, m) == {t \in 0..(S - 1) : (b0 - m <= t) /\ (t <= b1 + m)}
DenseSetX == DenseSet(bbox.x0, bbox.x1, W, margin)
DenseSetY == DenseSet(bbox.y0, bbox.y1, H, margin)

\* the source coordinate the selected mapper gives the target pixel (tx, ty)
MappedX(tx, ty) == IF spline THEN SplineCall(xspline, tx, ty)
                   ELSE TargetToSourceX(targetwcs, wcs, ToFloat(tx))
MappedY(tx, ty) == IF spline THEN SplineCall(yspline, tx, ty)
                   ELSE TargetToSourceY(targetwcs, wcs, ToFloat(ty))

\* the dense grid pixels whose source coordinate rounds into the input image
Kept == {p \in DenseSetX \X DenseSetY :
            LET sx == NpRound(MappedX(p[1], p[2]))
                sy == NpRound(MappedY(p[1], p[2]))
            IN  (0 <= sx) /\ (sx < w) /\ (0 <= sy) /\ (sy < h)}

\* the rounded box of the input image misses the target pixel range
Disjoint ==
    LET b == BBoxOf(targetwcs, wcs)
    IN  (b.x1 < 0) \/ (b.x0 >= W) \/ (b.y1 < 0) \/ (b.y0 >= H)

\* C1: a call on two images whose footprints are disjoint ends in
\* NoOverlapError, whatever the options: it neither returns nor signals
\* another error.
C1_DisjointSignalsNoOverlap ==
    (Disjoint /\ pc \in Terminal) => (pc = "NoOverlapError")

\* C2: none of the eight assertions fails, and every returned target index
\* lies in [0,W) x [0,H) and every returned source index in [0,w) x [0,h).
C2_BoundsInvariant ==
    /\ pc # "AssertionError"
    /\ (pc \in {"RESAMPLE", "DONE"}) =>
          /\ Len(ixo) = Len(iyo) /\ Len(ixi) = Len(ixo) /\ Len(iyi) = Len(ixo)
          /\ \A k \in 1..Len(ixo) :
                /\ (0 <= ixo[k]) /\ (ixo[k] < W)
                /\ (0 <= iyo[k]) /\ (iyo[k] < H)
                /\ (0 <= ixi[k]) /\ (ixi[k] < w)
                /\ (0 <= iyi[k]) /\ (iyi[k] < h)

\* C2 witness: a call returned pixels that touch the last target column and
\* the last source column.
C2_Witness ==
    /\ pc = "DONE"
    /\ \E k \in 1..Len(ixo) : ixo[k] = W - 1
    /\ \E k \in 1..Len(ixi) : (ixi[k] = w - 1) /\ (iyi[k] = 0)

\* C3: the resampled value of a constant image is that constant at every
\* returned pixel, for any number of images.
C3_ConstantPreserved ==
    (pc = "DONE") =>
        \A m \in 1..Len(Limages) : \A c \in 0..9 :
            (Limages[m] = ConstImage(h, w, c)) =>
                \A k \in 1..Len(rims[m]) :
                    /\ rims[m][k].den # 0
                    /\ rims[m][k].num = c * rims[m][k].den

\* C4: SmallOverlapError is signalled exactly when the spline was asked for,
\* the fallback is off, both node vectors are non-empty and one of them has
\* at most 3 nodes; an empty node vector gives NoOverlapError.
C4_SmallOverlapExactly ==
    Decided =>
        /\ (pc = "SmallOverlapError") <=>
              (/\ splineArg
               /\ ~splineFallback
               /\ xx.n > 0 /\ yy.n > 0
               /\ (xx.n <= 3 \/ yy.n <= 3))
        /\ (splineArg /\ (xx.n = 0 \/ yy.n = 0)) => (pc = "NoOverlapError")

\* C4 witness: SmallOverlapError was signalled with one long node vector.
C4_Witness ==
    /\ pc = "SmallOverlapError"
    /\ (xx.n > 3 \/ yy.n > 3)

\* the result of the call, or the error it signalled
Outcome ==
    IF pc = "DONE"
    THEN [status |-> "DONE", iyo |-> iyo, ixo |-> ixo, iyi |-> iyi, ixi |-> ixi,
          rims |-> rims]
    ELSE [status |-> pc]

\* what the direct path gives for the same WCSes and images: the box with no
\* margin, the mapper applied to every pixel of it
DirectOutcome ==
    LET b  == BBoxOf(targetwcs, wcs)
        gx == NpArange(Max2(0, b.x0), Min2(W, b.x1 + 1))
        gy == NpArange(Max2(0, b.y0), Min2(H, b.y1 + 1))
        r  == FilterResult(gx, gy, DirectMapX(targetwcs, wcs, gx, gy),
                           DirectMapY(targetwcs, wcs, gx, gy), w, h)
    IN  IF (Len(gx) = 0) \/ (Len(gy) = 0)
        THEN [status |-> "NoOverlapError"]
        ELSE [status |-> "DONE", iyo |-> r.iyo, ixo |-> r.ixo,
              iyi |-> r.iyi, ixi |-> r.ixi,
              rims |-> IF Len(Limages) = 0 THEN <<>>
                       ELSE LanczosInterpolate(L, r.ixi, r.iyi,
                                Fractional(r.fxi, r.ixi), Fractional(r.fyi, r.iyi),
                                Limages, h, w)]

\* a spline node vector has between 1 and 3 nodes
SmallNodes == (xx.n \in 1..3) \/ (yy.n \in 1..3)

\* C5: with the spline asked for, the fallback on and a node vector of 1 to 3
\* nodes, the call ends as the call with the spline disabled does.
C5_FallbackEqualsDirect ==
    (pc \in Terminal /\ (~splineArg \/ (splineFallback /\ SmallNodes)))
        => (Outcome = DirectOutcome)

\* C5 witness: a call fell back with a positive spline margin and returned
\* pixels and values.
C5_Witness ==
    /\ pc = "DONE"
    /\ splineArg /\ ~spline /\ splineMargin > 0
    /\ Len(ixo) > 0
    /\ Len(rims) > 0

\* the two WCSes describe the same pixel grid
Identity == wcs = targetwcs

\* C6: for the identity mapping with the spline disabled every returned
\* source index equals the target index, and a single image is resampled to
\* its own value at that pixel.
C6_IdentityRoundTrip ==
    (pc = "DONE" /\ Identity /\ ~splineArg) =>
        /\ ixi = ixo
        /\ iyi = iyo
        /\ (Len(Limages) = 1) =>
              \A k \in 1..Len(ixo) :
                  /\ rims[1][k].den # 0
                  /\ rims[1][k].num = Limages[1][iyo[k]][ixo[k]] * rims[1][k].den

\* C6 witness: the identity call on a 2 x 2 ramp image returned all 4 pixels.
C6_Witness ==
    /\ pc = "DONE" /\ Identity /\ ~splineArg
    /\ Len(ixo) = 4
    /\ Limages = <<RampImage(h, w)>>

\* C7: a non-empty dense grid of which no pixel is kept gives a normal return
\* with empty arrays, one empty value array per image; past the node checks
\* NoOverlapError is signalled only for a dense grid with an empty axis.
C7_EmptyResultIsNotAnError ==
    /\ (pc = "DONE" /\ Kept = {}) =>
          /\ Len(ixo) = 0 /\ Len(iyo) = 0 /\ Len(ixi) = 0 /\ Len(iyi) = 0
          /\ Len(rims) = Len(Limages)
          /\ \A m \in 1..Len(rims) : Len(rims[m]) = 0
    /\ (pc \in {"NoOverlapError", "AssertionError"}
           /\ DenseSetX # {} /\ DenseSetY # {}) =>
          (spline /\ (xx.n = 0 \/ yy.n = 0))

\* C7 witness: the direct path returned no pixel for two images.
C7_Witness ==
    /\ pc = "DONE" /\ ~splineArg
    /\ DenseSetX # {} /\ DenseSetY # {}
    /\ Len(ixo) = 0
    /\ Len(Limages) > 1 /\ Len(rims) = Len(Limages)

\* C8 as stated: once SPLINE or DIRECT is entered the next step is FILTER, so
\* no error is signalled after the mapper is selected.
C8_NoErrorAfterSelection ==
    [][(pc \in {"SPLINE", "DIRECT"}) => (pc' = "FILTER")]_vars

\* C8 as amended: every stage short of a terminal takes its next step; after
\* SPLINE that step leads on through FILTER and RESAMPLE to DONE, after DIRECT
\* it leads there too unless the dense grid is empty, which gives
\* NoOverlapError; SmallOverlapError is signalled at the selection only.
C8_Pipeline ==
    /\ [][/\ (pc = "START") => (pc' = "BBOX")
          /\ (pc = "BBOX") =>
                (pc' \in {"SPLINE", "DIRECT", "NoOverlapError", "SmallOverlapError"})
          /\ (pc = "SPLINE") => (pc' = "FILTER")
          /\ (pc = "DIRECT") =>
                (pc' = IF DenseSetX = {} \/ DenseSetY = {}
                       THEN "NoOverlapError" ELSE "FILTER")
          /\ (pc = "FILTER") => (pc' = "RESAMPLE")
          /\ (pc = "RESAMPLE") => (pc' = "DONE")
          /\ (pc \in Terminal) => (pc' = pc)]_vars
    /\ []((pc \notin Terminal) => ENABLED Next)

\* C8 witness: the fallback selected DIRECT and the empty dense grid then
\* gave NoOverlapError.
C8_Witness ==
    /\ pc = "NoOverlapError"
    /\ splineArg /\ ~spline
    /\ xx.n > 0 /\ yy.n > 0

\* C9: the returned list is exactly the dense grid pixels whose mapped source
\* coordinate rounds into the input image, each once and in row-major order,
\* and the source index at k is the rounded image of the target pixel at k.
C9_FilterSoundCompleteAligned ==
    (pc \in {"RESAMPLE", "DONE"}) =>
        /\ Len(iyo) = Len(ixo) /\ Len(ixi) = Len(ixo) /\ Len(iyi) = Len(ixo)
        /\ {<<ixo[k], iyo[k]>> : k \in 1..Len(ixo)} = Kept
        /\ Len(ixo) = Cardinality(Kept)
        /\ \A k \in 1..Len(ixo) : \A l \in 1..Len(ixo) :
              (k < l) => \/ iyo[k] < iyo[l]
                         \/ (iyo[k] = iyo[l] /\ ixo[k] < ixo[l])
        /\ \A k \in 1..Len(ixo) :
              /\ ixi[k] = NpRound(MappedX(ixo[k], iyo[k]))
              /\ iyi[k] = NpRound(MappedY(ixo[k], iyo[k]))

\* C9 witness: a dense grid that starts past the target origin lost some of
\* its pixels and kept pixels of two rows.
C9_Witness ==
    /\ pc = "DONE"
    /\ Len(ixo) >= 2
    /\ ixo[1] > 0 /\ iyo[1] > 0
    /\ iyo[Len(iyo)] > iyo[1]
    /\ Len(ixo) < Cardinality(DenseSetX) * Cardinality(DenseSetY)

====
